---- MODULE Spec2Model ----
(***************************************************************************)
(* The dashboard script app.py as a state machine.  The script is run top  *)
(* to bottom on every user interaction (a render pass); an uncaught        *)
(* exception ends the pass where it is raised.                             *)
(*                                                                         *)
(* A table is a sequence of row groups: a group is one CSV row together    *)
(* with the number n of consecutive identical rows it stands for, so that  *)
(* county sizes on both sides of the bin edges 50 and 1000 are reachable.  *)
(***************************************************************************)
EXTENDS Integers, Sequences, FiniteSets, TLC

VARIABLES
    file,        \* contents of Electric_Vehicle_Population_Data.csv on disk
    data,        \* the script's DataFrame `data`
    sel,         \* the three selectbox values kept by the widget runtime
    pc,          \* position of the script in the render pass
    out,         \* the derived tables of the pass
    rendered,    \* charts handed to st.altair_chart in the pass
    nanEdgeOk,   \* whether the installed pandas lets pd.cut take a NaN bin edge
    loaded,      \* history: `data` as line 17 left it in this pass
    file0,       \* history: the file contents at process start
    firstCut,    \* history: first Adoption Range column computed for this file
    prev         \* history: result of the previous pass when this one repeats it

vars == <<file, data, sel, pc, out, rendered, nanEdgeOk, loaded, file0, firstCut, prev>>

----------------------------------------------------------------------------
(* Bounds of the input tables *)

MaxGroups == 3      \* row groups in a table of Spec
MaxFill == 10       \* additional manufacturers in a table of SpecWide
MaxEdits == 1       \* row groups in a table of SpecReload

(* float NaN, as Series.max() of an empty series returns it *)
NaN == -1

Row(mk, ty, yr, rg, co, k) ==
    [Make |-> mk, ElectricVehicleType |-> ty, ModelYear |-> yr,
     ElectricRange |-> rg, County |-> co, n |-> k]

CsvColumns == <<"Make", "Electric Vehicle Type", "Model Year", "Electric Range", "County">>

(* alphabetical order of the manufacturer names, as groupby sorts its keys *)
MakeNames ==
    <<"Audi", "BMW", "Chevrolet", "Fiat", "Ford", "Honda", "Hyundai", "Jaguar",
      "Kia", "Lexus", "Mazda", "Nissan", "Tesla">>

MakeIndex(m) == CHOOSE i \in 1..Len(MakeNames) : MakeNames[i] = m

----------------------------------------------------------------------------
(* pandas operations used by the script *)

RECURSIVE SumN(_)
SumN(rows) ==
    IF rows = <<>> THEN 0 ELSE rows[1].n + SumN(Tail(rows))

RECURSIVE SumRange(_)
SumRange(rows) ==
    IF rows = <<>> THEN 0 ELSE rows[1].ElectricRange * rows[1].n + SumRange(Tail(rows))

RECURSIVE Unique(_)
Unique(s) ==
    IF s = <<>> THEN <<>>
    ELSE LET u == Unique(SubSeq(s, 1, Len(s) - 1))
             x == s[Len(s)]
         IN IF \E i \in 1..Len(u) : u[i] = x THEN u ELSE Append(u, x)

Column(rows, c) ==
    [i \in 1..Len(rows) |->
        CASE c = "Make" -> rows[i].Make
          [] c = "Electric Vehicle Type" -> rows[i].ElectricVehicleType
          [] c = "Model Year" -> rows[i].ModelYear
          [] c = "Electric Range" -> rows[i].ElectricRange
          [] c = "County" -> rows[i].County]

read_csv(f) == [columns |-> CsvColumns, rows |-> f, AdoptionRange |-> <<>>]

(* frame[frame[c] == v] *)
FilterEq(rows, c, v) ==
    LET col == Column(rows, c)
        RECURSIVE Keep(_)
        Keep(i) == IF i > Len(rows) THEN <<>>
                   ELSE IF col[i] = v THEN <<rows[i]>> \o Keep(i + 1) ELSE Keep(i + 1)
    IN Keep(1)

RECURSIVE SortedInts(_)
SortedInts(S) ==
    IF S = {} THEN <<>>
    ELSE LET m == CHOOSE x \in S : \A y \in S : x <= y
         IN <<m>> \o SortedInts(S \ {m})

(* frame.groupby('Model Year').size().reset_index(name='Count') *)
groupby_size(rows) ==
    LET years == SortedInts({rows[i].ModelYear : i \in 1..Len(rows)})
    IN [k \in 1..Len(years) |->
          [ModelYear |-> years[k], Count |-> SumN(FilterEq(rows, "Model Year", years[k]))]]

(* a < b for the quotients a = <<num, den>>, b = <<num, den>>, den > 0 *)
Less(a, b) == a[1] * b[2] < b[1] * a[2]

(* sort_values(key, ascending=False) as the row order it yields: larger keys
   first, rows of equal key in their order in the frame *)
RECURSIVE ArgSortDesc(_)
ArgSortDesc(keys) ==
    IF keys = <<>> THEN <<>>
    ELSE LET m == Len(keys)
             rest == ArgSortDesc(SubSeq(keys, 1, m - 1))
             k == Cardinality({i \in 1..Len(rest) : ~Less(keys[rest[i]], keys[m])})
         IN SubSeq(rest, 1, k) \o <<m>> \o SubSeq(rest, k + 1, Len(rest))

sort_values(frame, keys) ==
    LET order == ArgSortDesc(keys)
    IN [i \in 1..Len(frame) |-> frame[order[i]]]

(* frame['County'].value_counts().reset_index(), columns County, Count *)
value_counts(rows) ==
    LET cs == Unique(Column(rows, "County"))
        raw == [k \in 1..Len(cs) |->
                  [County |-> cs[k], Count |-> SumN(FilterEq(rows, "County", cs[k]))]]
    IN sort_values(raw, [k \in 1..Len(raw) |-> <<raw[k].Count, 1>>])

(* series.max(): NaN for an empty series *)
CountMax(vc) == IF vc = <<>> THEN NaN ELSE vc[1].Count


(* frame.head(k) *)
head(frame, k) == SubSeq(frame, 1, IF Len(frame) < k THEN Len(frame) ELSE k)

(* frame.groupby('Make')['Electric Range'].mean().reset_index(): one row per
   make in alphabetical order; the mean is kept as <<sum, count>> *)
groupby_mean(rows) ==
    LET idx == SortedInts({MakeIndex(rows[i].Make) : i \in 1..Len(rows)})
    IN [k \in 1..Len(idx) |->
          LET g == FilterEq(rows, "Make", MakeNames[idx[k]])
          IN [Make |-> MakeNames[idx[k]], ElectricRange |-> <<SumRange(g), SumN(g)>>]]

labels == <<"0-50", "51-200", "201-500", "501-1000", "1000+">>

(* line 80 *)
bins(rows) == <<0, 50, 200, 500, 1000, CountMax(value_counts(rows))>>

(* pd.cut raises ValueError when the edges do not increase (or repeat); a NaN
   edge is refused or let through depending on the pandas installed *)
CutRaises(edges, nanOk) ==
    IF \E i \in 1..Len(edges) : edges[i] = NaN
    THEN ~nanOk
    ELSE \E i \in 1..(Len(edges) - 1) : edges[i] >= edges[i + 1]

(* pd.cut(x, bins=edges, labels=labels, include_lowest=True) for one value:
   intervals are closed on the right, the first one also on the left *)
cut(v, edges) ==
    IF v = edges[1] THEN labels[1]
    ELSE IF \E k \in 1..(Len(edges) - 1) : edges[k] < v /\ v <= edges[k + 1]
         THEN labels[CHOOSE k \in 1..(Len(edges) - 1) : edges[k] < v /\ v <= edges[k + 1]]
         ELSE "nan"

(* data['County'].map(data['County'].value_counts()) *)
CountyCountOf(rows, c) == SumN(FilterEq(rows, "County", c))

AdoptionRangeOf(rows) ==
    [i \in 1..Len(rows) |-> cut(CountyCountOf(rows, rows[i].County), bins(rows))]

(* options of the two selectboxes of lines 27-28 *)
MakeOptions(d) == <<"All">> \o Unique(Column(d.rows, "Make"))
TypeOptions(d) == <<"All">> \o Unique(Column(d.rows, "Electric Vehicle Type"))
RangeOptions == <<"All">> \o labels

InSeq(x, s) == \E i \in 1..Len(s) : s[i] = x

(* lines 30-34 with line 34 filtering `data` again, which drops the make filter *)
filtered_data_refiltered(d, selected_make, selected_type) ==
    IF selected_type # "All" THEN FilterEq(d.rows, "Electric Vehicle Type", selected_type)
    ELSE IF selected_make # "All" THEN FilterEq(d.rows, "Make", selected_make)
    ELSE d.rows

(* lines 30-34 *)
filtered_data(d, selected_make, selected_type) ==
    LET byMake == IF selected_make # "All" THEN FilterEq(d.rows, "Make", selected_make)
                  ELSE d.rows
    IN IF selected_type # "All" THEN FilterEq(byMake, "Electric Vehicle Type", selected_type)
       ELSE byMake

(* line 36 *)
ev_count_by_year(d, selected_make, selected_type) ==
    groupby_size(filtered_data(d, selected_make, selected_type))

(* lines 53-55 *)
range_filtered_data(d, selected_type) ==
    IF selected_type # "All" THEN FilterEq(d.rows, "Electric Vehicle Type", selected_type)
    ELSE d.rows

(* line 85 *)
filtered_county_data(d, selected_range) ==
    IF selected_range = "All" THEN d.rows
    ELSE LET RECURSIVE Keep(_)
             Keep(i) == IF i > Len(d.rows) THEN <<>>
                        ELSE IF d.AdoptionRange[i] = selected_range
                             THEN <<d.rows[i]>> \o Keep(i + 1) ELSE Keep(i + 1)
         IN Keep(1)

(* lines 87-88 *)
county_counts(d, selected_range) == value_counts(filtered_county_data(d, selected_range))

(* line 112 with head(10) taken before sort_values *)
avg_range_by_make_head_first(d) ==
    LET means == head(groupby_mean(d.rows), 10)
    IN sort_values(means, [k \in 1..Len(means) |-> means[k].ElectricRange])

(* line 112 *)
avg_range_by_make(d) ==
    LET means == groupby_mean(d.rows)
    IN head(sort_values(means, [k \in 1..Len(means) |-> means[k].ElectricRange]), 10)

----------------------------------------------------------------------------
(* Input tables *)

gA == Row("Tesla", "BEV", 2018, 200, "Pierce", 1)
gB == Row("Tesla", "BEV", 2019, 300, "King", 1)
gC == Row("Nissan", "PHEV", 2018, 30, "Pierce", 50)
gD == Row("Nissan", "BEV", 2018, 100, "Yakima", 500)
gE == Row("Tesla", "PHEV", 2019, 250, "King", 1001)

Groups == {gA, gB, gC, gD, gE}

SeqsUpTo(S, k) == UNION {[1..m -> S] : m \in 0..k}

Tables == SeqsUpTo(Groups, MaxGroups)

(* one row for each of the first k manufacturers, their ranges spread by p *)
Fillers(k, p) ==
    [i \in 1..k |-> Row(MakeNames[i], "BEV", 2020, ((i * p) % 7) * 40, "King", 1)]

WideTables ==
    {Fillers(k, p) \o t : k \in 0..MaxFill, p \in {1, 3}, t \in {<<gE>>, <<gA, gE>>, <<gA>>}}

ReloadTables == SeqsUpTo({gA, gE}, MaxEdits)

----------------------------------------------------------------------------
(* The render pass *)

Charts == {"line_chart", "range_histogram", "county_bar_chart", "avg_range_chart"}

NoOut ==
    [ev_count_by_year |-> <<>>, range_filtered_data |-> <<>>,
     county_counts |-> <<>>, avg_range_by_make |-> <<>>]

(* no frame yet: the script has not reached line 17 in this process *)
NoData == [columns |-> <<>>, rows |-> <<>>, AdoptionRange |-> <<>>]

NoPrev == [valid |-> FALSE, file |-> <<>>, sel |-> <<>>, out |-> NoOut,
           rendered |-> {}, pc |-> "load"]

NoCut == [seen |-> FALSE, column |-> <<>>]

InitWith(tables, builds) ==
    /\ file \in tables
    /\ file0 = file
    /\ nanEdgeOk \in builds
    /\ data = NoData
    /\ loaded = NoData
    /\ sel = [make |-> "All", type |-> "All", range |-> "All"]
    /\ pc = "load"
    /\ out = NoOut
    /\ rendered = {}
    /\ firstCut = NoCut
    /\ prev = NoPrev

(* the file of Spec never changes and pd.cut meets a NaN edge only on the
   empty table, so the two pandas behaviours are told apart there alone *)
Init ==
    \/ InitWith(Tables \ {<<>>}, {FALSE})
    \/ InitWith({<<>>}, BOOLEAN)

(* line 17 reading the file only when no frame is held yet *)
LoadDataOnce ==
    /\ pc = "load"
    /\ data' = IF data = NoData THEN read_csv(file) ELSE read_csv(data.rows)
    /\ loaded' = data'
    /\ pc' = "trends"
    /\ UNCHANGED <<file, sel, out, rendered, nanEdgeOk, file0, firstCut, prev>>

(* line 17 adding the rows read to the frame already held *)
LoadDataAppend ==
    /\ pc = "load"
    /\ data' = read_csv(data.rows \o file)
    /\ loaded' = data'
    /\ pc' = "trends"
    /\ UNCHANGED <<file, sel, out, rendered, nanEdgeOk, file0, firstCut, prev>>

(* line 17: the file is read into `data` *)
LoadData ==
    /\ pc = "load"
    /\ data' = read_csv(file)
    /\ loaded' = read_csv(file)
    /\ pc' = "trends"
    /\ UNCHANGED <<file, sel, out, rendered, nanEdgeOk, file0, firstCut, prev>>

(* lines 27-47 with lines 32 and 34 assigning the filtered frame to `data` *)
TrendsStepInPlace ==
    /\ pc = "trends"
    /\ LET selected_make == IF InSeq(sel.make, MakeOptions(data)) THEN sel.make ELSE "All"
           selected_type == IF InSeq(sel.type, TypeOptions(data)) THEN sel.type ELSE "All"
       IN /\ sel' = [sel EXCEPT !.make = selected_make, !.type = selected_type]
          /\ data' = [data EXCEPT !.rows = filtered_data(data, selected_make, selected_type)]
          /\ out' = [out EXCEPT !.ev_count_by_year =
                                    ev_count_by_year(data, selected_make, selected_type)]
    /\ rendered' = rendered \cup {"line_chart"}
    /\ pc' = "hist"
    /\ UNCHANGED <<file, nanEdgeOk, loaded, file0, firstCut, prev>>

(* lines 27-47: a selectbox whose kept value is no longer among its options
   shows its first option *)
TrendsStep ==
    /\ pc = "trends"
    /\ LET selected_make == IF InSeq(sel.make, MakeOptions(data)) THEN sel.make ELSE "All"
           selected_type == IF InSeq(sel.type, TypeOptions(data)) THEN sel.type ELSE "All"
       IN /\ sel' = [sel EXCEPT !.make = selected_make, !.type = selected_type]
          /\ out' = [out EXCEPT !.ev_count_by_year =
                                    ev_count_by_year(data, selected_make, selected_type)]
    /\ rendered' = rendered \cup {"line_chart"}
    /\ pc' = "hist"
    /\ UNCHANGED <<file, data, nanEdgeOk, loaded, file0, firstCut, prev>>

(* lines 53-68 *)
HistogramStep ==
    /\ pc = "hist"
    /\ out' = [out EXCEPT !.range_filtered_data = range_filtered_data(data, sel.type)]
    /\ rendered' = rendered \cup {"range_histogram"}
    /\ pc' = "bucket"
    /\ UNCHANGED <<file, data, sel, nanEdgeOk, loaded, file0, firstCut, prev>>

(* lines 80-82 with line 82 counting the counties of filtered_data: the rows
   the make and type filters leave out get no label *)
BucketStepFiltered ==
    /\ pc = "bucket"
    /\ \/ /\ CutRaises(bins(data.rows), nanEdgeOk)
          /\ pc' = "halted"
          /\ UNCHANGED <<data, firstCut>>
       \/ /\ ~CutRaises(bins(data.rows), nanEdgeOk)
          /\ LET kept == filtered_data(data, sel.make, sel.type)
             IN data' = [data EXCEPT
                          !.columns = Append(@, "Adoption Range"),
                          !.AdoptionRange =
                              [i \in 1..Len(data.rows) |->
                                  IF InSeq(data.rows[i], kept)
                                  THEN cut(CountyCountOf(kept, data.rows[i].County),
                                           bins(data.rows))
                                  ELSE "nan"]]
          /\ firstCut' = IF firstCut.seen THEN firstCut
                         ELSE [seen |-> TRUE, column |-> data'.AdoptionRange]
          /\ pc' = "county"
    /\ UNCHANGED <<file, sel, out, rendered, nanEdgeOk, loaded, file0, prev>>

(* lines 80-82 inside a try/except that goes on to the next chart *)
BucketStepIsolated ==
    /\ pc = "bucket"
    /\ \/ /\ CutRaises(bins(data.rows), nanEdgeOk)
          /\ pc' = "top"
          /\ UNCHANGED <<data, firstCut>>
       \/ /\ ~CutRaises(bins(data.rows), nanEdgeOk)
          /\ data' = [data EXCEPT !.columns = Append(@, "Adoption Range"),
                                  !.AdoptionRange = AdoptionRangeOf(data.rows)]
          /\ firstCut' = IF firstCut.seen THEN firstCut
                         ELSE [seen |-> TRUE, column |-> data'.AdoptionRange]
          /\ pc' = "county"
    /\ UNCHANGED <<file, sel, out, rendered, nanEdgeOk, loaded, file0, prev>>

(* lines 80-82: pd.cut raises and the pass ends, or the column is added *)
BucketStep ==
    /\ pc = "bucket"
    /\ \/ /\ CutRaises(bins(data.rows), nanEdgeOk)
          /\ pc' = "halted"
          /\ UNCHANGED <<data, firstCut>>
       \/ /\ ~CutRaises(bins(data.rows), nanEdgeOk)
          /\ data' = [data EXCEPT !.columns = Append(@, "Adoption Range"),
                                  !.AdoptionRange = AdoptionRangeOf(data.rows)]
          /\ firstCut' = IF firstCut.seen THEN firstCut
                         ELSE [seen |-> TRUE, column |-> data'.AdoptionRange]
          /\ pc' = "county"
    /\ UNCHANGED <<file, sel, out, rendered, nanEdgeOk, loaded, file0, prev>>

(* lines 83-106 *)
CountyStep ==
    /\ pc = "county"
    /\ out' = [out EXCEPT !.county_counts = county_counts(data, sel.range)]
    /\ rendered' = rendered \cup {"county_bar_chart"}
    /\ pc' = "top"
    /\ UNCHANGED <<file, data, sel, nanEdgeOk, loaded, file0, firstCut, prev>>

(* lines 112-124 *)
TopMakesStep ==
    /\ pc = "top"
    /\ out' = [out EXCEPT !.avg_range_by_make = avg_range_by_make(data)]
    /\ rendered' = rendered \cup {"avg_range_chart"}
    /\ pc' = "done"
    /\ UNCHANGED <<file, data, sel, nanEdgeOk, loaded, file0, firstCut, prev>>

PassEnded == pc \in {"done", "halted"}

(* a widget interaction starts the script again from the top *)
StartPass ==
    /\ pc' = "load"
    /\ out' = NoOut
    /\ rendered' = {}
    /\ UNCHANGED <<file, data, nanEdgeOk, loaded, file0, firstCut>>

UserSelectMake ==
    /\ PassEnded
    /\ \E i \in 1..Len(MakeOptions(data)) :
          /\ MakeOptions(data)[i] # sel.make
          /\ sel' = [sel EXCEPT !.make = MakeOptions(data)[i]]
    /\ prev' = NoPrev
    /\ StartPass

UserSelectType ==
    /\ PassEnded
    /\ \E i \in 1..Len(TypeOptions(data)) :
          /\ TypeOptions(data)[i] # sel.type
          /\ sel' = [sel EXCEPT !.type = TypeOptions(data)[i]]
    /\ prev' = NoPrev
    /\ StartPass

(* the selectbox of line 83 is on the page only when the pass got that far *)
UserSelectRange ==
    /\ pc = "done"
    /\ \E i \in 1..Len(RangeOptions) :
          /\ RangeOptions[i] # sel.range
          /\ sel' = [sel EXCEPT !.range = RangeOptions[i]]
    /\ prev' = NoPrev
    /\ StartPass

(* the script is run again with the selection as it is *)
Rerun ==
    /\ PassEnded
    /\ prev' = [valid |-> TRUE, file |-> file, sel |-> sel, out |-> out,
                rendered |-> rendered, pc |-> pc]
    /\ UNCHANGED sel
    /\ StartPass

(* the file is replaced on disk while the dashboard runs *)
FileChange ==
    /\ \E t \in ReloadTables : t # file /\ file' = t
    /\ firstCut' = NoCut
    /\ prev' = NoPrev
    /\ UNCHANGED <<data, sel, pc, out, rendered, nanEdgeOk, loaded, file0>>

Next ==
    \/ LoadData
    \/ TrendsStep
    \/ HistogramStep
    \/ BucketStep
    \/ CountyStep
    \/ TopMakesStep
    \/ UserSelectMake
    \/ UserSelectType
    \/ UserSelectRange
    \/ Rerun

Spec == Init /\ [][Next]_vars

InitWide == InitWith(WideTables, {FALSE})

SpecWide == InitWide /\ [][Next]_vars

InitReload == InitWith(ReloadTables, BOOLEAN)

NextReload == Next \/ FileChange

SpecReload == InitReload /\ [][NextReload]_vars

----------------------------------------------------------------------------
(* Properties *)

AfterTrends == pc \in {"hist", "bucket", "county", "top", "done", "halted"}
AfterBucket == pc \in {"county", "top", "done"}

(* the rows of the table read from the file that the make and type selection keeps *)
Matching ==
    {i \in 1..Len(file) :
        /\ sel.make # "All" => file[i].Make = sel.make
        /\ sel.type # "All" => file[i].ElectricVehicleType = sel.type}

RECURSIVE Records(_, _)
Records(t, I) ==
    IF I = {} THEN 0
    ELSE LET i == CHOOSE j \in I : TRUE IN t[i].n + Records(t, I \ {i})

RECURSIVE RangeTotal(_, _)
RangeTotal(t, I) ==
    IF I = {} THEN 0
    ELSE LET i == CHOOSE j \in I : TRUE
         IN t[i].n * t[i].ElectricRange + RangeTotal(t, I \ {i})

CountiesOf(t) == {t[i].County : i \in 1..Len(t)}
MakesOf(t) == {t[i].Make : i \in 1..Len(t)}
CountySize(t, c) == Records(t, {i \in 1..Len(t) : t[i].County = c})

(* C1: the trends-by-year table has one entry per Model Year among the records
   matching the make and type selection, its count the number of those records
   of that year, the years strictly increasing *)
TrendsByYearCorrect ==
    AfterTrends =>
        LET t == out.ev_count_by_year
        IN /\ \A i, j \in 1..Len(t) : i < j => t[i].ModelYear < t[j].ModelYear
           /\ {t[i].ModelYear : i \in 1..Len(t)} = {file[i].ModelYear : i \in Matching}
           /\ \A k \in 1..Len(t) :
                 t[k].Count = Records(file, {i \in Matching : file[i].ModelYear = t[k].ModelYear})

(* C1 witness: three Tesla records of years 2018, 2018, 2019 under (Tesla, All) *)
TrendsByYearWitness ==
    /\ AfterTrends
    /\ file = <<gA, gA, gB>>
    /\ sel.make = "Tesla" /\ sel.type = "All"
    /\ out.ev_count_by_year = <<[ModelYear |-> 2018, Count |-> 2], [ModelYear |-> 2019, Count |-> 1]>>

(* the band of a county of `size` records *)
Band(size) ==
    IF size <= 50 THEN "0-50"
    ELSE IF size <= 200 THEN "51-200"
    ELSE IF size <= 500 THEN "201-500"
    ELSE IF size <= 1000 THEN "501-1000"
    ELSE "1000+"

CountyPairs(t, b) ==
    {[County |-> c, Count |-> CountySize(t, c)] :
        c \in {x \in CountiesOf(t) : b = "All" \/ Band(CountySize(t, x)) = b}}

(* C2: on every non-empty table the pass completes and the county distribution
   holds exactly the counties whose size in the full table lies in the selected band *)
CountyDistributionByBand ==
    (PassEnded /\ file # <<>>) =>
        /\ pc = "done"
        /\ {out.county_counts[k] : k \in 1..Len(out.county_counts)} = CountyPairs(file, sel.range)
        /\ Len(out.county_counts) = Cardinality(CountyPairs(file, sel.range))

(* C3: the Adoption Range column a pass computes is the one the first pass over
   the same table computed, whatever the selection is now *)
BucketIndependentOfSelection ==
    (AfterBucket /\ firstCut.seen) => data.AdoptionRange = firstCut.column

(* C3 witness: a later pass under another make, type and range selection has
   labelled a table whose counties lie in two bands *)
BucketWitness ==
    /\ AfterBucket /\ firstCut.seen
    /\ sel.make # "All" /\ sel.type # "All" /\ sel.range # "All"
    /\ \E i, j \in 1..Len(data.AdoptionRange) : data.AdoptionRange[i] # data.AdoptionRange[j]
    /\ Matching # {} /\ Matching # 1..Len(file)

(* C4: on the table with no records the pass raises nothing and the four
   derivations are empty *)
EmptyTableNoFault ==
    (PassEnded /\ file = <<>>) => (pc = "done" /\ out = NoOut /\ rendered = Charts)

(* C5 as stated: after the load step the working table is the table as loaded *)
TableUnchangedAfterLoad ==
    pc # "load" => data = loaded

(* C5: after the load step the rows and the five loaded columns of the working
   table are as loaded; the one change is the Adoption Range column, present
   from the bucketing step on *)
OnlyAdoptionColumnAdded ==
    pc # "load" =>
        /\ data.rows = loaded.rows
        /\ SubSeq(data.columns, 1, Len(loaded.columns)) = loaded.columns
        /\ IF AfterBucket
           THEN /\ data.columns = Append(loaded.columns, "Adoption Range")
                /\ Len(data.AdoptionRange) = Len(data.rows)
           ELSE data = loaded

(* C5 witness: a completed pass over a filtered, non-empty table holds the extra column *)
AdoptionColumnWitness ==
    /\ pc = "done"
    /\ sel.make # "All"
    /\ Matching # 1..Len(file)
    /\ data.columns # loaded.columns /\ data.rows = file

(* C6: a pass that repeats the previous one, the file and the selection being
   the same, ends the same way with the same four derived tables *)
RerunIdempotent ==
    (PassEnded /\ prev.valid /\ prev.file = file /\ prev.sel = sel) =>
        (out = prev.out /\ rendered = prev.rendered /\ pc = prev.pc)

(* C6 witness: a repeated, completed pass under a make and a range selection
   with entries in all four derived tables *)
RerunWitness ==
    /\ pc = "done" /\ prev.valid /\ prev.file = file /\ prev.sel = sel
    /\ sel.make # "All" /\ sel.range # "All"
    /\ out.ev_count_by_year # <<>> /\ out.range_filtered_data # <<>>
    /\ out.county_counts # <<>> /\ out.avg_range_by_make # <<>>

MeanOf(t, m) ==
    LET I == {i \in 1..Len(t) : t[i].Make = m}
    IN <<RangeTotal(t, I), Records(t, I)>>

Smaller(a, b) == IF Cardinality(a) < b THEN Cardinality(a) ELSE b

(* C7: whatever the selection, the top-manufacturers table has min(10, number
   of makes) entries, each a make of the table with the mean Electric Range of
   all its records, in non-increasing order of mean, and no make left out has a
   larger mean than a make returned *)
TopManufacturersCorrect ==
    pc = "done" =>
        LET t == out.avg_range_by_make
            returned == {t[k].Make : k \in 1..Len(t)}
        IN /\ Len(t) <= 10
           /\ Len(t) = Smaller(MakesOf(file), 10)
           /\ Cardinality(returned) = Len(t)
           /\ returned \subseteq MakesOf(file)
           /\ \A k \in 1..Len(t) :
                 LET m == MeanOf(file, t[k].Make)
                 IN t[k].ElectricRange[1] * m[2] = m[1] * t[k].ElectricRange[2]
           /\ \A i, j \in 1..Len(t) :
                 i < j => ~Less(t[i].ElectricRange, t[j].ElectricRange)
           /\ \A m \in MakesOf(file) \ returned : \A k \in 1..Len(t) :
                 ~Less(t[k].ElectricRange, MeanOf(file, m))

(* C7 witness: more than ten makes, a make left out, a mean that is no whole
   number, and a make, type and range selection in force *)
TopManufacturersWitness ==
    /\ pc = "done"
    /\ Cardinality(MakesOf(file)) > 10
    /\ Len(out.avg_range_by_make) = 10
    /\ sel.make # "All" /\ sel.type # "All" /\ sel.range # "All"
    /\ \E k \in 1..10 :
          out.avg_range_by_make[k].ElectricRange[1] % out.avg_range_by_make[k].ElectricRange[2] # 0

(* C8 as stated: the trend, histogram and top-manufacturers derivations never
   raise, so their charts are rendered in every pass, also when the county
   bucketing raises *)
ChartIsolation ==
    PassEnded => {"line_chart", "range_histogram", "avg_range_chart"} \subseteq rendered

(* C8: when the county bucketing raises, the pass ends there: the two charts
   before it are rendered, the county chart and the top-manufacturers chart
   after it are not; a pass in which nothing raises renders all four *)
FaultEndsPass ==
    /\ pc = "halted" =>
          /\ rendered = {"line_chart", "range_histogram"}
          /\ out.county_counts = <<>> /\ out.avg_range_by_make = <<>>
    /\ pc = "done" => rendered = Charts

(* C8 witness: a pass over a table with records ended by the bucketing step *)
FaultEndsPassWitness ==
    /\ pc = "halted"
    /\ file # <<>>
    /\ out.ev_count_by_year # <<>>
    /\ "avg_range_chart" \notin rendered

(* C9 as stated: every pass works on the file contents of process start *)
FileReadOnceAtStart ==
    pc # "load" => loaded.rows = file0

(* C9: every pass reads the file, at its start: the step that leaves line 17
   makes the working table the contents the file has then *)
FileReadEveryPass ==
    [][(pc = "load" /\ pc' # "load") => (data' = read_csv(file) /\ loaded' = data')]_vars

(* C9 witness: a completed pass has derived its tables from contents that
   replaced those of process start *)
FileReadEveryPassWitness ==
    /\ pc = "done"
    /\ file # file0 /\ file0 # <<>>
    /\ data.rows = file /\ loaded.rows = file
    /\ out.range_filtered_data = file

(* C10: a selection that matches no record of a table with records gives an
   empty derived table and the pass still completes with every chart rendered *)
EmptySelectionCompletes ==
    (PassEnded /\ file # <<>> /\ (Matching = {} \/ CountyPairs(file, sel.range) = {})) =>
        /\ pc = "done"
        /\ rendered = Charts
        /\ Matching = {} => out.ev_count_by_year = <<>>
        /\ CountyPairs(file, sel.range) = {} => out.county_counts = <<>>

(* the county distribution of a completed pass, by band *)
CompletedCountyDistribution ==
    pc = "done" =>
        /\ {out.county_counts[k] : k \in 1..Len(out.county_counts)} = CountyPairs(file, sel.range)
        /\ Len(out.county_counts) = Cardinality(CountyPairs(file, sel.range))

====
